---- MODULE Spec2Model ----
(***************************************************************************)
(* Model of the mcp-generator extraction pipeline: the Source Scanner      *)
(* (extractTools), the Schema Scanner (extractResources) and the           *)
(* orchestrator (generateMCPManifest), in the two shipped shapes:          *)
(*   "cli"  the command-line build with per-step error handling            *)
(*   "lib"  the library build (index.js and its TypeScript source)         *)
(* and of the functions they build descriptors with: parseTypeScriptType,  *)
(* guessDescription, categorizeFunction and the documentation extraction.  *)
(* Strings the code matches against patterns (names, paths, type texts)    *)
(* are sequences of one-character strings; tags and messages are plain     *)
(* strings.  call and ret are the calls made to a function on its own and  *)
(* the results it gave, in order.                                          *)
(***************************************************************************)
EXTENDS Integers, Sequences, FiniteSets, TLC

VARIABLES variant, env, tsFiles, sqlFiles, pcM, pcT, pcR, outT, outR,
          processedFunctions, Parser, console, attempts, settled, manifest,
          exited, call, ret

vars == <<variant, env, tsFiles, sqlFiles, pcM, pcT, pcR, outT, outR,
          processedFunctions, Parser, console, attempts, settled, manifest,
          exited, call, ret>>

\* ------------------------------------------------------------------ bounds
MaxFiles == 2
MaxSyms == 2
MaxSqlFiles == 2
MaxTables == 2
MaxAccepts == 2
MethodMaxFiles == 2
MethodMaxSyms == 2
NameMaxFiles == 1
NameMaxSyms == 1
RunMaxFiles == 1
RunMaxSyms == 1
RunMaxSqlFiles == 1
RunMaxTables == 1

\* ----------------------------------------------------------------- strings
UpperCase ==
  <<"A","B","C","D","E","F","G","H","I","J","K","L","M",
    "N","O","P","Q","R","S","T","U","V","W","X","Y","Z">>

LowerCase ==
  <<"a","b","c","d","e","f","g","h","i","j","k","l","m",
    "n","o","p","q","r","s","t","u","v","w","x","y","z">>

ToLowerMap ==
  [c \in {UpperCase[i] : i \in 1..26} |->
     LowerCase[CHOOSE i \in 1..26 : UpperCase[i] = c]]

IsUpperChar(c) == c \in DOMAIN ToLowerMap

ToLowerChar(c) == IF IsUpperChar(c) THEN ToLowerMap[c] ELSE c

toLowerCase(s) == [i \in 1..Len(s) |-> ToLowerChar(s[i])]

startsWith(s, p) == Len(p) <= Len(s) /\ SubSeq(s, 1, Len(p)) = p

includes(s, p) ==
  \E i \in 0..(Len(s) - Len(p)) : SubSeq(s, i + 1, i + Len(p)) = p

\* a mutation of MatchPrefixI: the pattern without its i flag
MatchPrefixCased(s, alts) ==
  \E k \in 1..Len(alts) : startsWith(s, alts[k])

\* name.match(/^(a|b|...)/i): some alternative is a prefix, letter case ignored
MatchPrefixI(s, alts) ==
  \E ls \in {toLowerCase(s)} :
    \E k \in 1..Len(alts) : startsWith(ls, toLowerCase(alts[k]))

\* ------------------------------------------------------------------- paths
Cwd == <<"/","w">>

RECURSIVE SplitPath(_,_,_)
SplitPath(s, i, cur) ==
  IF i > Len(s) THEN (IF cur = <<>> THEN <<>> ELSE <<cur>>)
  ELSE IF s[i] = "/"
       THEN (IF cur = <<>> THEN <<>> ELSE <<cur>>) \o SplitPath(s, i + 1, <<>>)
       ELSE SplitPath(s, i + 1, Append(cur, s[i]))

RECURSIVE NormalizeSegs(_,_,_)
NormalizeSegs(segs, i, acc) ==
  IF i > Len(segs) THEN acc
  ELSE IF segs[i] = <<".">> THEN NormalizeSegs(segs, i + 1, acc)
  ELSE IF segs[i] = <<".",".">>
       THEN NormalizeSegs(segs, i + 1,
              IF acc = <<>> THEN acc ELSE SubSeq(acc, 1, Len(acc) - 1))
       ELSE NormalizeSegs(segs, i + 1, Append(acc, segs[i]))

\* path.resolve(from, p) as a list of segments of the absolute path
ResolveSegs(from, p) ==
  IF Len(p) > 0 /\ p[1] = "/"
  THEN NormalizeSegs(SplitPath(p, 1, <<>>), 1, <<>>)
  ELSE NormalizeSegs(SplitPath(from, 1, <<>>) \o SplitPath(p, 1, <<>>), 1, <<>>)

RECURSIVE JoinSegs(_,_)
JoinSegs(segs, i) ==
  IF i > Len(segs) THEN <<>>
  ELSE segs[i] \o (IF i < Len(segs) THEN <<"/">> ELSE <<>>) \o JoinSegs(segs, i + 1)

\* the absolute path ts-morph reports for a file added by a relative path
getFilePath(p) == <<"/">> \o JoinSegs(ResolveSegs(Cwd, p), 1)

RECURSIVE CommonPrefixLen(_,_,_)
CommonPrefixLen(a, b, i) ==
  IF i > Len(a) \/ i > Len(b) \/ a[i] # b[i] THEN i - 1
  ELSE CommonPrefixLen(a, b, i + 1)

\* path.relative(from, to)
pathRelative(from, to) ==
  LET f == ResolveSegs(Cwd, from)
      t == ResolveSegs(Cwd, to)
      k == CommonPrefixLen(f, t, 1)
      ups == [i \in 1..(Len(f) - k) |-> <<".",".">>]
  IN  JoinSegs(ups \o SubSeq(t, k + 1, Len(t)), 1)

\* ---------------------------------------------------------- name classifier
FetchPrefixes ==
  <<
    <<"g","e","t">>, <<"f","e","t","c","h">>, <<"f","i","n","d">>,
    <<"r","e","t","r","i","e","v","e">>, <<"l","o","a","d">>,
    <<"q","u","e","r","y">> >>

CreatePrefixes ==
  <<
    <<"c","r","e","a","t","e">>, <<"a","d","d">>,
    <<"i","n","s","e","r","t">>, <<"p","o","s","t">> >>

UpdatePrefixes ==
  <<
    <<"u","p","d","a","t","e">>, <<"e","d","i","t">>,
    <<"m","o","d","i","f","y">>, <<"p","a","t","c","h">>, <<"p","u","t">> >>

DeletePrefixes ==
  <<
    <<"d","e","l","e","t","e">>, <<"r","e","m","o","v","e">>,
    <<"d","e","s","t","r","o","y">> >>

ListPrefixes ==
  <<
    <<"l","i","s","t">>, <<"g","e","t","A","l","l">> >>

SearchPrefixes ==
  <<
    <<"s","e","a","r","c","h">>, <<"f","i","l","t","e","r">> >>

ValidatePrefixes ==
  <<
    <<"v","a","l","i","d","a","t","e">>, <<"c","h","e","c","k">>,
    <<"v","e","r","i","f","y">> >>

AuthPrefixes ==
  <<
    <<"a","u","t","h">>, <<"l","o","g","i","n">>,
    <<"l","o","g","o","u","t">>, <<"r","e","g","i","s","t","e","r">> >>

\* name.replace(/^(a|b|...)/i, ''): the name without the first alternative
\* that is a prefix of it, letter case ignored
StripPrefixI(s, alts) ==
  LET ls == toLowerCase(s)
      hits == {k \in 1..Len(alts) : startsWith(ls, toLowerCase(alts[k]))}
  IN  IF hits = {} THEN s
      ELSE LET k == CHOOSE h \in hits : \A g \in hits : h <= g
           IN  SubSeq(s, Len(alts[k]) + 1, Len(s))

\* Object.keys(params).some(p => p.toLowerCase().includes('id'))
hasId(params) ==
  \E k \in 1..Len(params) : includes(toLowerCase(params[k]), <<"i","d">>)

Digits == <<"0","1","2","3","4","5","6","7","8","9">>

RECURSIVE NumberText(_)
NumberText(n) ==
  IF n < 10 THEN <<Digits[n + 1]>>
  ELSE NumberText(n \div 10) \o <<Digits[(n % 10) + 1]>>

\* `${head}${name.replace(/^(...)/i, '').toLowerCase()}${tail}`
Sentence(head, name, alts, tail) ==
  head \o toLowerCase(StripPrefixI(name, alts)) \o tail

TxtFetchSpecific ==
  <<"F","e","t","c","h"," ","a"," ","s","p","e","c","i","f","i","c"," ">>
TxtByID ==
  <<" ","b","y"," ","I","D">>
TxtFetch ==
  <<"F","e","t","c","h"," ">>
TxtData ==
  <<" ","d","a","t","a">>
TxtCreate ==
  <<"C","r","e","a","t","e"," ","a"," ","n","e","w"," ">>
TxtRecord ==
  <<" ","r","e","c","o","r","d">>
TxtUpdate ==
  <<"U","p","d","a","t","e"," ","a","n"," ","e","x","i","s","t","i","n","g"," ">>
TxtDelete ==
  <<"D","e","l","e","t","e"," ","a"," ">>
TxtListAll ==
  <<"L","i","s","t"," ","a","l","l"," ">>
TxtRecords ==
  <<" ","r","e","c","o","r","d","s">>
TxtSearch ==
  <<"S","e","a","r","c","h"," ","a","n","d"," ","f","i","l","t","e","r"," ">>
TxtValidate ==
  <<"V","a","l","i","d","a","t","e"," ">>
TxtFunction ==
  <<"F","u","n","c","t","i","o","n",":"," ">>
TxtParameters ==
  <<" ","p","a","r","a","m","e","t","e","r","s",")">>

\* params is Object.keys(params): the parameter names in insertion order
guessDescription(name, params) ==
  IF MatchPrefixI(name, FetchPrefixes)
  THEN IF hasId(params)
       THEN Sentence(TxtFetchSpecific, name, FetchPrefixes, TxtByID)
       ELSE Sentence(TxtFetch, name, FetchPrefixes, TxtData)
  ELSE IF MatchPrefixI(name, CreatePrefixes)
  THEN Sentence(TxtCreate, name, CreatePrefixes, TxtRecord)
  ELSE IF MatchPrefixI(name, UpdatePrefixes)
  THEN Sentence(TxtUpdate, name, UpdatePrefixes, TxtRecord)
  ELSE IF MatchPrefixI(name, DeletePrefixes)
  THEN Sentence(TxtDelete, name, DeletePrefixes, TxtRecord)
  ELSE IF MatchPrefixI(name, ListPrefixes)
  THEN Sentence(TxtListAll, name, ListPrefixes, TxtRecords)
  ELSE IF MatchPrefixI(name, SearchPrefixes)
  THEN Sentence(TxtSearch, name, SearchPrefixes, TxtRecords)
  ELSE IF MatchPrefixI(name, ValidatePrefixes)
  THEN Sentence(TxtValidate, name, ValidatePrefixes, TxtData)
  ELSE TxtFunction \o name \o
         (IF Len(params) > 0
          THEN <<" ", "(">> \o NumberText(Len(params)) \o TxtParameters
          ELSE <<>>)

\* the directory markers in the order they are tested, with their category
PathMarkers ==
  << [marker |-> <<"/","a","p","i","/">>, category |-> "api"],
     [marker |-> <<"/","r","o","u","t","e","s","/">>, category |-> "api"],
     [marker |-> <<"/","u","t","i","l","s","/">>, category |-> "utility"],
     [marker |-> <<"/","h","e","l","p","e","r","s","/">>, category |-> "utility"],
     [marker |-> <<"/","s","e","r","v","i","c","e","s","/">>, category |-> "service"],
     [marker |-> <<"/","m","o","d","e","l","s","/">>, category |-> "model"],
     [marker |-> <<"/","c","o","n","t","r","o","l","l","e","r","s","/">>, category |-> "controller"],
     [marker |-> <<"/","m","i","d","d","l","e","w","a","r","e","/">>, category |-> "middleware"] >>

\* the category of the first name rule that matches
NameCategory(name) ==
  IF MatchPrefixI(name, FetchPrefixes) THEN "data-access"
  ELSE IF MatchPrefixI(name, CreatePrefixes) THEN "data-creation"
  ELSE IF MatchPrefixI(name, UpdatePrefixes) THEN "data-modification"
  ELSE IF MatchPrefixI(name, DeletePrefixes) THEN "data-deletion"
  ELSE IF MatchPrefixI(name, ValidatePrefixes) THEN "validation"
  ELSE IF MatchPrefixI(name, AuthPrefixes) THEN "authentication"
  ELSE "general"

\* the markers found in the path, by position in PathMarkers
MarkersIn(filePath) ==
  {k \in 1..Len(PathMarkers) : includes(filePath, PathMarkers[k].marker)}

\* a mutation of categorizeFunction: the name rules ahead of the path rules
categorizeNameFirst(name, filePath) ==
  IF NameCategory(name) # "general" THEN NameCategory(name)
  ELSE IF MarkersIn(filePath) = {} THEN "general"
  ELSE PathMarkers[CHOOSE k \in MarkersIn(filePath) :
                     \A j \in MarkersIn(filePath) : k <= j].category

\* a mutation of categorizeFunction: a marker directory at the head of the
\* path counts too
categorizeAnyDirectory(name, filePath) ==
  IF MarkersIn(<<"/">> \o filePath) # {}
  THEN PathMarkers[CHOOSE k \in MarkersIn(<<"/">> \o filePath) :
                     \A j \in MarkersIn(<<"/">> \o filePath) : k <= j].category
  ELSE NameCategory(name)

categorizeFunction(name, filePath) ==
  IF MarkersIn(filePath) # {}
  THEN PathMarkers[CHOOSE k \in MarkersIn(filePath) :
                     \A j \in MarkersIn(filePath) : k <= j].category
  ELSE NameCategory(name)

\* ----------------------------------------------------------- symbol filter
Anonymous == <<"[","a","n","o","n","y","m","o","u","s","]">>

TestPrefixes == << <<"t","e","s","t">>, <<"s","p","e","c">>,
                   <<"m","o","c","k">>, <<"s","t","u","b">> >>

InternalPrefixes == << <<"h","e","l","p","e","r">>, <<"u","t","i","l">>,
                       <<"i","n","t","e","r","n","a","l">>,
                       <<"p","r","i","v","a","t","e">> >>

CtorPrefixes == << <<"c","o","n","s","t","r","u","c","t","o","r">>,
                   <<"i","n","i","t">> >>

ComponentWord == <<"c","o","m","p","o","n","e","n","t">>

isValidToolFunction(name, filePath) ==
  IF startsWith(name, <<"_">>) \/ startsWith(name, <<"#">>) THEN FALSE
  ELSE IF MatchPrefixI(name, TestPrefixes) THEN FALSE
  ELSE IF MatchPrefixI(name, InternalPrefixes) THEN FALSE
  ELSE IF MatchPrefixI(name, CtorPrefixes) THEN FALSE
  ELSE IF Len(name) > 0 /\ IsUpperChar(name[1])
          /\ includes(getFilePath(filePath), ComponentWord) THEN FALSE
  ELSE TRUE

\* ---------------------------------------------------------- source scanner
\* A symbol of a source file, in source order:
\*   kind     "function" | "variable" (function-valued binding) | "method"
\*   name     the identifier, NoName when getName() returns undefined
\*   exported isExported() of the declaration; for a method, of its class
\*   mods     the modifier keywords written on the symbol
\*   throws   the ts-morph call that throws for this symbol, or "none"
NoName == <<>>

getName(fn) == IF fn.name = NoName THEN Anonymous ELSE fn.name

HasIsExported(fn) == fn.kind \in {"function", "variable"}

\* a mutation of IsExported: every candidate counts as exported
IsExportedAlways(fn) == TRUE

\* the export check of one candidate (isExported, else hasModifier(export))
IsExported(fn) ==
  IF HasIsExported(fn) THEN fn.exported
  ELSE "export" \in fn.mods

SelectKind(syms, k) == SelectSeq(syms, LAMBDA s : s.kind = k)

IsPublicMethod(m) == "public" \in m.mods \/ ~("private" \in m.mods)

\* methods of exported classes that are public or not private
classMethods(syms) ==
  SelectSeq(syms, LAMBDA s : s.kind = "method" /\ s.exported /\ IsPublicMethod(s))

\* a mutation of allFunctions: the methods ahead of the other candidates
allFunctionsMethodsFirst(file) ==
  classMethods(file.syms) \o SelectKind(file.syms, "function")
    \o SelectKind(file.syms, "variable")

\* declarations, then bindings, then methods
allFunctions(file) ==
  SelectKind(file.syms, "function") \o SelectKind(file.syms, "variable")
    \o classMethods(file.syms)

functionKey(filePath, name) == filePath \o <<":">> \o name

\* a mutation of IsDuplicate: the set is never consulted
IsDuplicateNever(processed, key) == FALSE

\* processedFunctions.has(functionKey)
IsDuplicate(processed, key) == key \in processed

Warn(msg, file) == [level |-> "warn", msg |-> msg, file |-> file]

ToolDescriptor(name, filePath) ==
  [name |-> name, file |-> pathRelative(Cwd, filePath),
   category |-> categorizeFunction(name, filePath)]

\* one iteration of the loop over allFunctions; st.thrown marks an exception
\* that leaves the loop (there is none in the cli build, whose loop body is
\* wrapped in its own try/catch)
ProcessFunctionCli(filePath, fn, st) ==
  IF fn.throws = "getName"
  THEN [st EXCEPT !.console = Append(@, Warn("FunctionError", NoName))]
  ELSE IF getName(fn) = Anonymous THEN st
  ELSE IF ~isValidToolFunction(getName(fn), filePath) THEN st
  ELSE IF fn.throws = "isExported" \/ ~IsExported(fn) THEN st
  ELSE IF IsDuplicate(st.processed, functionKey(filePath, getName(fn))) THEN st
  ELSE [st EXCEPT !.processed = @ \cup {functionKey(filePath, getName(fn))},
                  !.tools = Append(@, ToolDescriptor(getName(fn), filePath))]

ProcessFunctionLib(filePath, fn, st) ==
  IF fn.throws = "getName" THEN [st EXCEPT !.thrown = TRUE]
  ELSE IF ~isValidToolFunction(getName(fn), filePath) THEN st
  ELSE IF fn.throws = "isExported" THEN [st EXCEPT !.thrown = TRUE]
  ELSE IF ~IsExported(fn) THEN st
  ELSE IF IsDuplicate(st.processed, functionKey(filePath, getName(fn))) THEN st
  ELSE IF fn.throws = "extract"
  THEN [st EXCEPT !.processed = @ \cup {functionKey(filePath, getName(fn))},
                  !.thrown = TRUE]
  ELSE [st EXCEPT !.processed = @ \cup {functionKey(filePath, getName(fn))},
                  !.tools = Append(@, ToolDescriptor(getName(fn), filePath))]

ProcessFunction(v, filePath, fn, st) ==
  IF v = "cli" THEN ProcessFunctionCli(filePath, fn, st)
  ELSE ProcessFunctionLib(filePath, fn, st)

RECURSIVE ScanFunctions(_,_,_,_,_)
ScanFunctions(v, filePath, fns, i, st) ==
  IF i > Len(fns) THEN st
  ELSE CHOOSE out \in
         { IF r.thrown THEN r ELSE ScanFunctions(v, filePath, fns, i + 1, r) :
             r \in {ProcessFunction(v, filePath, fns[i], st)} } : TRUE

\* the body of the loop over tsFiles for one file
ProcessSourceFile(v, file, st) ==
  IF v = "cli" /\ file.state = "missing"
  THEN [st EXCEPT !.console = Append(@, Warn("FileNotFound", file.path))]
  ELSE IF file.state # "ok"
  THEN [st EXCEPT !.console = Append(@, Warn("FailedToProcess", file.path))]
  ELSE CHOOSE out \in
         { IF r.thrown
           THEN [r EXCEPT !.thrown = FALSE,
                          !.console = Append(@, Warn("FailedToProcess", file.path))]
           ELSE r :
             r \in {ScanFunctions(v, file.path, allFunctions(file), 1, st)} } : TRUE

RECURSIVE ScanSourceFiles(_,_,_,_)
ScanSourceFiles(v, files, i, st) ==
  IF i > Len(files) THEN st
  ELSE CHOOSE out \in
         { ScanSourceFiles(v, files, i + 1, r) :
             r \in {ProcessSourceFile(v, files[i], st)} } : TRUE

\* a mutation of extractToolsLoop: the set outlives the invocation
extractToolsLoopShared(v, files, con) ==
  ScanSourceFiles(v, files, 1,
    [tools |-> <<>>, processed |-> processedFunctions, console |-> con,
     thrown |-> FALSE])

\* extractTools from the end of the file glob to its return
extractToolsLoop(v, files, con) ==
  ScanSourceFiles(v, files, 1,
    [tools |-> <<>>, processed |-> {}, console |-> con, thrown |-> FALSE])

\* ---------------------------------------------------------- schema scanner
\* A SQL file as the scanner sees it:
\*   state      "ok" | "missing" (gone between the glob and the read)
\*   raw        "blank" (empty or whitespace only) | "text"
\*   okDialects the dialects whose parser accepts the text without throwing
\*   tables     the table definitions a successful parse reports; a table's
\*              shape says how far its conversion gets:
\*                "good"   converts
\*                "notype" has a column without a type object
\*                "broken" has a null column entry, or the file can no longer
\*                         be stat'ed when its descriptor is built
dialects == <<"mysql", "postgresql", "sqlite", "mssql">>

ResourceDescriptor(table, file, dialect) ==
  [name |-> table.name, file |-> pathRelative(Cwd, file.path), dialect |-> dialect]

\* converting one table throws (col.type.datatype without the ?. of the cli
\* build; col.name of a null column or fs.statSync in both)
TableThrows(v, table) ==
  table.shape = "broken" \/ (v = "lib" /\ table.shape = "notype")

\* the loop over the tables of one parse; st.thrown marks the exception
RECURSIVE ScanTables(_,_,_,_,_,_)
ScanTables(v, file, dialect, tables, i, st) ==
  IF i > Len(tables) THEN st
  ELSE IF tables[i].name = NoName
  THEN ScanTables(v, file, dialect, tables, i + 1, st)
  ELSE IF TableThrows(v, tables[i]) THEN [st EXCEPT !.thrown = TRUE]
  ELSE ScanTables(v, file, dialect, tables, i + 1,
         [st EXCEPT !.resources =
            Append(@, ResourceDescriptor(tables[i], file, dialect))])

\* new Parser(dialect); parser.feed(raw); parser.results
ParseThrows(P, file, dialect) ==
  P # "class" \/ ~(dialect \in file.okDialects)

\* the loop over the dialects from position d on; st.parsed is the flag
RECURSIVE TryDialects(_,_,_,_,_)
TryDialects(v, P, file, d, st) ==
  IF d > Len(dialects) THEN st
  ELSE CHOOSE out \in
         { IF ParseThrows(P, file, dialects[d])
           THEN TryDialects(v, P, file, d + 1, tried)
           ELSE CHOOSE o \in
                  { IF r.thrown
                    THEN TryDialects(v, P, file, d + 1, [r EXCEPT !.thrown = FALSE])
                    ELSE [r EXCEPT !.parsed = TRUE] :
                      r \in {ScanTables(v, file, dialects[d], file.tables, 1, tried)} }
                  : TRUE :
             tried \in {[st EXCEPT !.attempts = Append(@, <<file.path, dialects[d]>>)]} }
         : TRUE

\* a mutation of ProcessSqlFile: a file counts as parsed only when the parse
\* added a descriptor
ProcessSqlFileByOutput(v, P, file, st) ==
  IF file.state = "missing"
  THEN [st EXCEPT !.console =
          Append(@, Warn(IF v = "cli" THEN "SqlFileNotFound"
                         ELSE "FailedToProcessSql", file.path))]
  ELSE IF v = "cli" /\ file.raw = "blank" THEN st
  ELSE CHOOSE out \in
         { IF r.parsed /\ Len(r.resources) > Len(st.resources) THEN r
           ELSE [r EXCEPT !.console = Append(@, Warn("CouldNotParse", file.path))] :
             r \in {TryDialects(v, P, file, 1, [st EXCEPT !.parsed = FALSE])} } : TRUE

\* the body of the loop over sqlFiles for one file
ProcessSqlFile(v, P, file, st) ==
  IF file.state = "missing"
  THEN [st EXCEPT !.console =
          Append(@, Warn(IF v = "cli" THEN "SqlFileNotFound"
                         ELSE "FailedToProcessSql", file.path))]
  ELSE IF v = "cli" /\ file.raw = "blank" THEN st
  ELSE CHOOSE out \in
         { IF r.parsed THEN r
           ELSE [r EXCEPT !.console = Append(@, Warn("CouldNotParse", file.path))] :
             r \in {TryDialects(v, P, file, 1, [st EXCEPT !.parsed = FALSE])} } : TRUE

RECURSIVE ScanSqlFiles(_,_,_,_,_)
ScanSqlFiles(v, P, files, i, st) ==
  IF i > Len(files) THEN st
  ELSE CHOOSE out \in
         { ScanSqlFiles(v, P, files, i + 1, r) :
             r \in {ProcessSqlFile(v, P, files[i], st)} } : TRUE

\* extractResources from the point where the parser class is at hand
extractResourcesLoop(v, P, files, con, att) ==
  ScanSqlFiles(v, P, files, 1,
    [resources |-> <<>>, console |-> con, attempts |-> att,
     parsed |-> FALSE, thrown |-> FALSE])

\* ------------------------------------------------------------ orchestrator
Pending == [status |-> "pending", value |-> <<>>]
Fulfilled(v) == [status |-> "fulfilled", value |-> v]
Rejected == [status |-> "rejected", value |-> <<>>]

\* the .catch(error => { console.error(...); return []; }) the cli build
\* puts on each scanner's promise; the lib build passes the promise as it is
WithCatch(v, p) ==
  IF v = "cli" /\ p.status = "rejected" THEN Fulfilled(<<>>) ELSE p

CatchLog(v, p, who, con) ==
  IF v = "cli" /\ p.status = "rejected"
  THEN Append(con, [level |-> "error", msg |-> "ErrorExtracting", file |-> who])
  ELSE con

\* new Project(...) at the head of extractTools throws
ProjectThrows(v, e) == v = "lib" /\ e.tsconfig # "ok"

\* the values in the order in which the promises settled
PromiseAllBySettlement(order, pT, pR) ==
  [i \in 1..2 |-> IF order[i] = "tools" THEN pT.value ELSE pR.value]

\* const [tools, resources] = await Promise.all([...]): values by position
PromiseAllValues(order, pT, pR) == <<pT.value, pR.value>>

\* generateMCPManifest is called: extractTools() and extractResources() each
\* run up to their first await
Start ==
  /\ ~exited /\ pcM = "idle"
  /\ pcM' = "awaiting"
  /\ IF ProjectThrows(variant, env)
     THEN /\ pcT' = "done"
          /\ outT' = WithCatch(variant, Rejected)
          /\ settled' = Append(settled, "tools")
     ELSE /\ pcT' = "glob"
          /\ UNCHANGED <<outT, settled>>
  /\ pcR' = "glob"
  /\ UNCHANGED <<call, ret, variant, env, tsFiles, sqlFiles, outR, processedFunctions,
                 Parser, console, attempts, manifest, exited>>

\* the TypeScript glob settles and extractTools runs to its end
ToolsGlob ==
  /\ ~exited /\ pcT = "glob"
  /\ pcT' = "done"
  /\ settled' = Append(settled, "tools")
  /\ IF env.globTs = "fails"
     THEN /\ outT' = WithCatch(variant, Rejected)
          /\ console' = CatchLog(variant, Rejected, "tools", console)
          /\ UNCHANGED processedFunctions
     ELSE \E r \in {extractToolsLoop(variant, tsFiles, console)} :
            /\ outT' = Fulfilled(r.tools)
            /\ processedFunctions' = r.processed
            /\ console' = r.console
  /\ UNCHANGED <<call, ret, variant, env, tsFiles, sqlFiles, pcM, pcR, outR, Parser,
                 attempts, manifest, exited>>

\* the SQL glob settles; the cli build goes on to load the parser, the lib
\* build (parser imported statically) scans at once
ResGlob ==
  /\ ~exited /\ pcR = "glob"
  /\ IF env.globSql = "fails"
     THEN /\ pcR' = "done"
          /\ outR' = WithCatch(variant, Rejected)
          /\ console' = CatchLog(variant, Rejected, "resources", console)
          /\ settled' = Append(settled, "resources")
          /\ UNCHANGED <<attempts, Parser>>
     ELSE IF variant = "cli"
     THEN IF Parser = "unset"
          THEN /\ pcR' = "import"
               /\ UNCHANGED <<outR, console, settled, attempts, Parser>>
          ELSE /\ pcR' = "scan"
               /\ UNCHANGED <<outR, console, settled, attempts, Parser>>
     ELSE \E r \in {extractResourcesLoop(variant, "class", sqlFiles, console, attempts)} :
            /\ pcR' = "done"
            /\ outR' = Fulfilled(r.resources)
            /\ console' = r.console
            /\ attempts' = r.attempts
            /\ settled' = Append(settled, "resources")
            /\ UNCHANGED Parser
  /\ UNCHANGED <<call, ret, variant, env, tsFiles, sqlFiles, pcM, pcT, outT,
                 processedFunctions, manifest, exited>>

\* initializeParser: the dynamic import settles (then the require fallback)
InitializeParser ==
  /\ ~exited /\ pcR = "import"
  /\ IF env.parserLoad = "none"
     THEN /\ exited' = TRUE
          /\ console' = Append(console,
               [level |-> "error", msg |-> "CouldNotImport", file |-> "resources"])
          /\ UNCHANGED <<Parser, pcR>>
     ELSE /\ Parser' = IF env.parserLoad = "noexport" THEN "undefined" ELSE "class"
          /\ pcR' = "scan"
          /\ UNCHANGED <<exited, console>>
  /\ UNCHANGED <<call, ret, variant, env, tsFiles, sqlFiles, pcM, pcT, outT, outR,
                 processedFunctions, attempts, settled, manifest>>

\* extractResources resumes with the parser and runs to its end
ResScan ==
  /\ ~exited /\ pcR = "scan"
  /\ \E r \in {extractResourcesLoop(variant, Parser, sqlFiles, console, attempts)} :
       /\ pcR' = "done"
       /\ outR' = Fulfilled(r.resources)
       /\ console' = r.console
       /\ attempts' = r.attempts
       /\ settled' = Append(settled, "resources")
  /\ UNCHANGED <<call, ret, variant, env, tsFiles, sqlFiles, pcM, pcT, outT,
                 processedFunctions, Parser, manifest, exited>>

\* Promise.all settles: rejected as soon as one input is rejected, fulfilled
\* when all are fulfilled
Join ==
  /\ ~exited /\ pcM = "awaiting"
  /\ \/ outT.status = "rejected"
     \/ outR.status = "rejected"
     \/ (outT.status = "fulfilled" /\ outR.status = "fulfilled")
  /\ pcM' = "done"
  /\ manifest' =
       IF outT.status = "rejected" \/ outR.status = "rejected"
       THEN [status |-> "rejected", tools |-> <<>>, resources |-> <<>>]
       ELSE LET vals == PromiseAllValues(settled, outT, outR)
            IN  [status |-> "fulfilled", tools |-> vals[1], resources |-> vals[2]]
  /\ UNCHANGED <<call, ret, variant, env, tsFiles, sqlFiles, pcT, pcR, outT, outR,
                 processedFunctions, Parser, console, attempts, settled, exited>>

Next == Start \/ ToolsGlob \/ ResGlob \/ InitializeParser \/ ResScan \/ Join

\* the entry of a tool in the manifest (the fields the descriptor has here)
ManifestTool(tool) ==
  [name |-> tool.name, category |-> tool.category, file |-> tool.file]

\* the entry of a resource in the manifest
ManifestResource(resource) ==
  [uri |-> <<"s","q","l",":","/","/">> \o resource.name, name |-> resource.name,
   file |-> resource.file, dialect |-> resource.dialect]

\* a mutation of toolsByCategory: the names of a category are counted
toolsByCategoryNames(tools) ==
  [c \in {tools[i].category : i \in 1..Len(tools)} |->
     Cardinality({tools[i].name : i \in {k \in 1..Len(tools) : tools[k].category = c}})]

\* the tools grouped by tool.category || 'general', as the size of each group
toolsByCategory(tools) ==
  [c \in {tools[i].category : i \in 1..Len(tools)} |->
     Cardinality({i \in 1..Len(tools) : tools[i].category = c})]

\* generateMCPManifest after Promise.all: the manifest is put together, the
\* two globs of its statistics are awaited and it is returned
Assemble ==
  /\ ~exited /\ pcM = "done" /\ manifest.status = "fulfilled"
  /\ pcM' = "returned"
  /\ manifest' =
       IF env.globTs = "fails" \/ env.globSql = "fails"
       THEN [status |-> "rejected", tools |-> <<>>, resources |-> <<>>]
       ELSE [status |-> "returned",
             tools |-> [i \in 1..Len(manifest.tools) |-> ManifestTool(manifest.tools[i])],
             resources |-> [i \in 1..Len(manifest.resources) |->
                              ManifestResource(manifest.resources[i])],
             statistics |->
               [totalTools |-> Len(manifest.tools),
                totalResources |-> Len(manifest.resources),
                toolsByCategory |-> toolsByCategory(manifest.tools)]]
  /\ UNCHANGED <<call, ret, variant, env, tsFiles, sqlFiles, pcT, pcR, outT, outR,
                 processedFunctions, Parser, console, attempts, settled, exited>>

\* ------------------------------------------------------------------ inputs
SeqsUpTo(S, n) == UNION {[1..k -> S] : k \in 0..n}

\* nondecreasing cut points c[0] = 0 <= c[1] <= ... <= c[n] = len
Cuts(n, len) ==
  {c \in [0..n -> 0..len] :
     /\ c[0] = 0
     /\ n > 0 => c[n] = len
     /\ \A i \in 1..n : c[i - 1] <= c[i]}

Segment(all, c, i) == SubSeq(all, c[i - 1] + 1, c[i])

TsPath(i) ==
  (IF i = 2 THEN <<"c","o","m","p","o","n","e","n","t","/">>
   ELSE IF i = 3 THEN <<"s","r","c","/","a","p","i","/">> ELSE <<>>)
    \o <<LowerCase[i], ".", "t", "s">>

SqlPath(i) == <<"d", "b", "/", LowerCase[i], ".", "s", "q", "l">>

FileStates == {"ok", "missing", "unparsable"}

\* the source tree has at most maxFiles files and maxSyms symbols in all; a
\* file that is missing or does not parse has no symbols to show
TsFilesIn(Syms, States, maxFiles, maxSyms) ==
  \E n \in 0..maxFiles :
    \E all \in SeqsUpTo(Syms, IF n = 0 THEN 0 ELSE maxSyms) :
      \E c \in Cuts(n, Len(all)) :
        \E stt \in [1..n -> States] :
          /\ \A i \in 1..n : stt[i] # "ok" => Segment(all, c, i) = <<>>
          /\ tsFiles = [i \in 1..n |-> [path |-> TsPath(i), state |-> stt[i],
                                         syms |-> Segment(all, c, i)]]

RECURSIVE SumCard(_,_)
SumCard(x, i) == IF i = 0 THEN 0 ELSE Cardinality(x[i]) + SumCard(x, i - 1)

SqlFileKinds ==
  {[state |-> "ok", raw |-> "text"], [state |-> "ok", raw |-> "blank"],
   [state |-> "missing", raw |-> "blank"]}

\* the SQL tree has at most maxFiles files, maxTables tables in all and
\* maxAccepts accepting (file, dialect) pairs in all; a missing file has no
\* content and a blank file defines no table
SqlFilesIn(Tables, DialectSets, maxFiles, maxTables, maxAccepts) ==
  \E n \in 0..maxFiles :
    \E all \in SeqsUpTo(Tables, IF n = 0 THEN 0 ELSE maxTables) :
      \E c \in Cuts(n, Len(all)) :
        \E k \in [1..n -> SqlFileKinds] :
          \E ok \in [1..n -> DialectSets] :
            /\ \A i \in 1..n : k[i].raw = "blank" => Segment(all, c, i) = <<>>
            /\ \A i \in 1..n : k[i].state # "ok" => ok[i] = {}
            /\ SumCard(ok, n) <= maxAccepts
            /\ sqlFiles = [i \in 1..n |->
                 [path |-> SqlPath(i), state |-> k[i].state, raw |-> k[i].raw,
                  okDialects |-> ok[i], tables |-> Segment(all, c, i)]]

Sym(kind, name, exported, mods, throws) ==
  [kind |-> kind, name |-> name, exported |-> exported, mods |-> mods,
   throws |-> throws]

Nrun == <<"r","u","n">>
NGo == <<"G","o">>

\* the symbols of the scanner runs: declarations and bindings, exported and
\* not, named and anonymous, and a declaration for each call that can throw
ScanSyms ==
  {Sym("function", Nrun, e, {}, "none") : e \in BOOLEAN}
    \cup {Sym("function", n, TRUE, {}, "none") : n \in {NGo, NoName}}
    \cup {Sym("variable", Nrun, TRUE, {}, "none")}
    \cup {Sym("function", Nrun, TRUE, {}, t) : t \in {"getName", "isExported", "extract"}}

\* the symbols of the class scans: methods with each modifier in exported and
\* unexported classes, next to a declaration and a binding
MethodSyms ==
  {Sym("method", Nrun, TRUE, m, "none") :
     m \in {{}, {"public"}, {"private"}, {"export"}}}
    \cup {Sym("method", NGo, e, {}, "none") : e \in BOOLEAN}
    \cup {Sym("function", NGo, e, {}, "none") : e \in BOOLEAN}
    \cup {Sym("variable", Nrun, TRUE, {}, "none")}

Nusers == <<"u","s","e","r","s">>

ScanTableSet ==
  {[name |-> Nusers, shape |-> s] : s \in {"good", "notype", "broken"}}
    \cup {[name |-> NoName, shape |-> "good"]}

EnvOk == [tsconfig |-> "ok", globTs |-> "ok", globSql |-> "ok", parserLoad |-> "esm"]

InitWith(Variants, Envs) ==
  /\ variant \in Variants
  /\ env \in {e \in Envs : variant = "lib" => e.parserLoad = "esm"}
  /\ pcM = "idle" /\ pcT = "idle" /\ pcR = "idle"
  /\ outT = Pending /\ outR = Pending
  /\ processedFunctions = {}
  /\ Parser = "unset"
  /\ console = <<>>
  /\ attempts = <<>>
  /\ settled = <<>>
  /\ manifest = [status |-> "pending", tools |-> <<>>, resources |-> <<>>]
  /\ exited = FALSE
  /\ call = <<>>
  /\ ret = <<>>

\* the Source Scanner alone, over every small source tree
InitTools ==
  /\ InitWith({"cli", "lib"}, {EnvOk})
  /\ TsFilesIn(ScanSyms, FileStates, MaxFiles, MaxSyms)
  /\ sqlFiles = <<>>

NextTools == Start \/ ToolsGlob

SpecTools == InitTools /\ [][NextTools]_vars

\* the Source Scanner alone, over every small tree of classes
InitMethods ==
  /\ InitWith({"cli", "lib"}, {EnvOk})
  /\ TsFilesIn(MethodSyms, FileStates, MethodMaxFiles, MethodMaxSyms)
  /\ sqlFiles = <<>>

SpecMethods == InitMethods /\ [][NextTools]_vars

\* the Schema Scanner alone, over every small SQL tree
InitSql ==
  /\ InitWith({"cli", "lib"}, {EnvOk})
  /\ tsFiles = <<>>
  /\ SqlFilesIn(ScanTableSet, SUBSET {dialects[d] : d \in 1..Len(dialects)},
                MaxSqlFiles, MaxTables, MaxAccepts)

NextSql == Start \/ ResGlob \/ InitializeParser \/ ResScan

SpecSql == InitSql /\ [][NextSql]_vars

\* whole runs of generateMCPManifest in every environment, over small trees
RunSyms == {Sym("function", Nrun, e, {}, "none") : e \in BOOLEAN}

RunTableSet == {[name |-> Nusers, shape |-> "good"]}

RunEnvs ==
  [tsconfig : {"ok", "missing"}, globTs : {"ok", "fails"},
   globSql : {"ok", "fails"}, parserLoad : {"esm", "cjs", "noexport", "none"}]

Init ==
  /\ InitWith({"cli", "lib"}, RunEnvs)
  /\ TsFilesIn(RunSyms, {"ok", "missing"}, RunMaxFiles, RunMaxSyms)
  /\ SqlFilesIn(RunTableSet, {{}, {"mysql"}},
                RunMaxSqlFiles, RunMaxTables, RunMaxSqlFiles)

Spec == Init /\ [][Next]_vars

\* the Source Scanner over files of symbols with names of every filtered
\* shape, exported and not
NameSamples ==
  { <<"_","h","e","l","p","e","r">>, <<"#","p","r","i","v">>,
    <<"t","e","s","t","F","o","o">>, <<"m","o","c","k","B","a","r">>,
    <<"C","o","n","s","t","r","u","c","t","o","r","I","n","i","t">>,
    <<"S","p","e","c","s">>, <<"s","t","u","b">>, <<"M","O","C","K">>,
    <<"h","e","l","p","e","r","s">>, <<"U","t","i","l","s">>,
    <<"i","n","t","e","r","n","a","l","s">>, <<"P","R","I","V","A","T","E">>,
    <<"i","n","i","t","D","b">>, <<"I","n","i","t">>,
    <<"T","e","s","t">>, <<"_">>,
    <<"l","a","t","e","s","t">>, <<"r","e","i","n","i","t">>,
    <<"u","n","m","o","c","k">>, <<"a","_","b">>,
    <<"g","e","t","U","s","e","r">>, <<"R","u","n">>, <<"t","e","s">>,
    <<"i","n","i">> }

NameSyms ==
  {Sym("function", n, e, {}, "none") : n \in NameSamples, e \in BOOLEAN}
    \cup {Sym("method", n, TRUE, {"export"}, "none") : n \in NameSamples}

InitNames ==
  /\ InitWith({"cli", "lib"}, {EnvOk})
  /\ TsFilesIn(NameSyms, FileStates, NameMaxFiles, NameMaxSyms)
  /\ sqlFiles = <<>>

SpecNames == InitNames /\ [][NextTools]_vars

\* ------------------------------------------------------------------ claims
ToolsDone == pcT = "done" /\ outT.status = "fulfilled"

CountTools(ts, file, name) ==
  Cardinality({i \in 1..Len(ts) : ts[i].file = file /\ ts[i].name = name})

NoThrow(file) == \A k \in 1..Len(file.syms) : file.syms[k].throws = "none"

\* the file declares two exported functions of this name
TwoExported(file, name) ==
  \E a, b \in 1..Len(file.syms) :
    /\ a < b
    /\ \A k \in {a, b} : /\ file.syms[k].kind = "function"
                         /\ file.syms[k].name = name
                         /\ file.syms[k].exported

\* C1: in the list extractTools returns no two descriptors have the same
\* (file, name) pair, and a file that scans without an exception and holds two
\* exported functions of one accepted name contributes exactly one descriptor
\* of that name.
C1_UniqueFileName ==
  ToolsDone =>
    /\ \A i, j \in 1..Len(outT.value) :
         (outT.value[i].file = outT.value[j].file
            /\ outT.value[i].name = outT.value[j].name) => i = j
    /\ \A f \in 1..Len(tsFiles) : \A n \in {Nrun, NGo} :
         (tsFiles[f].state = "ok" /\ NoThrow(tsFiles[f])
            /\ TwoExported(tsFiles[f], n)
            /\ isValidToolFunction(n, tsFiles[f].path))
         => CountTools(outT.value, tsFiles[f].path, n) = 1

C1_Witness ==
  /\ ToolsDone
  /\ Len(tsFiles) = 2
  /\ TwoExported(tsFiles[1], Nrun)
  /\ NoThrow(tsFiles[1])
  /\ CountTools(outT.value, tsFiles[1].path, Nrun) = 1

ToolsOfFile(ts, file) == SelectSeq(ts, LAMBDA t : t.file = file)

HasWarning(con, file) ==
  \E k \in 1..Len(con) : con[k].level = "warn" /\ con[k].file = file

\* what the scanner returns for a tree made of this file alone
ToolsAlone(v, file) == extractToolsLoop(v, <<file>>, <<>>).tools

\* processing of the file ends in an exception: the file cannot be added to
\* the project, or a call made while scanning its symbols throws and no
\* handler inside the loop over the symbols takes it
FileFails(v, file) ==
  \/ file.state # "ok"
  \/ ScanFunctions(v, file.path, allFunctions(file), 1,
       [tools |-> <<>>, processed |-> {}, console |-> <<>>, thrown |-> FALSE]).thrown

\* C5: when processing of a source file fails, a warning naming the file is
\* logged, the list extractTools returns holds no descriptor of that file, and
\* every other file contributes what it contributes when scanned alone.
C5_FailedFileSkipped ==
  ToolsDone =>
    \A f \in 1..Len(tsFiles) :
      FileFails(variant, tsFiles[f]) =>
        /\ HasWarning(console, tsFiles[f].path)
        /\ ToolsOfFile(outT.value, tsFiles[f].path) = <<>>
        /\ \A g \in 1..Len(tsFiles) :
             ~FileFails(variant, tsFiles[g]) =>
               ToolsOfFile(outT.value, tsFiles[g].path) = ToolsAlone(variant, tsFiles[g])

\* C10: every method of an exported class that is public or not marked
\* private, and whose name passes the filter, has a descriptor of its (file,
\* name) in the list extractTools returns.
C10_ExportedClassMethods ==
  ToolsDone =>
    \A f \in 1..Len(tsFiles) : \A k \in 1..Len(tsFiles[f].syms) :
      LET m == tsFiles[f].syms[k]
      IN  (/\ tsFiles[f].state = "ok"
           /\ m.kind = "method" /\ m.exported /\ IsPublicMethod(m)
           /\ isValidToolFunction(m.name, tsFiles[f].path))
          => CountTools(outT.value, tsFiles[f].path, m.name) >= 1

ForbiddenPrefixes ==
  { <<"t","e","s","t">>, <<"s","p","e","c">>, <<"m","o","c","k">>,
    <<"s","t","u","b">>, <<"h","e","l","p","e","r">>, <<"u","t","i","l">>,
    <<"i","n","t","e","r","n","a","l">>, <<"p","r","i","v","a","t","e">>,
    <<"c","o","n","s","t","r","u","c","t","o","r">>, <<"i","n","i","t">> }

ForbiddenName(n) ==
  \/ Len(n) > 0 /\ n[1] \in {"_", "#"}
  \/ \E p \in ForbiddenPrefixes :
       /\ Len(n) >= Len(p)
       /\ \A i \in 1..Len(p) : ToLowerChar(n[i]) = p[i]

\* C9: no descriptor in the list extractTools returns has a name that starts
\* with _ or #, or that starts, letter case ignored, with test, spec, mock,
\* stub, helper, util, internal, private, constructor or init.
C9_NoForbiddenName ==
  ToolsDone => \A i \in 1..Len(outT.value) : ~ForbiddenName(outT.value[i].name)

NConstructorInit == <<"C","o","n","s","t","r","u","c","t","o","r","I","n","i","t">>

\* an exported ConstructorInit was scanned and left out, next to nothing else
C9_Witness ==
  /\ ToolsDone
  /\ Len(tsFiles) = 1 /\ tsFiles[1].state = "ok"
  /\ tsFiles[1].syms = <<Sym("function", NConstructorInit, TRUE, {}, "none")>>
  /\ outT.value = <<>>
  /\ HasWarning(console, tsFiles[1].path) = FALSE

\* ------------------------------------------------- schema scanner claims
ResDone == pcR = "done" /\ outR.status = "fulfilled"

ResOfFile(rs, file) == SelectSeq(rs, LAMBDA r : r.file = file)

CountWarnings(con, file) ==
  Cardinality({k \in 1..Len(con) : con[k].level = "warn" /\ con[k].file = file})

\* the parser class the loop over the SQL files works with
ParserAtScan == IF variant = "lib" THEN "class" ELSE Parser

\* the file reaches the loop over the dialects
Attempted(v, file) ==
  file.state = "ok" /\ ~(v = "cli" /\ file.raw = "blank")

\* the attempt with dialects[d] runs to the end of its try block
AttemptCompletes(v, P, file, d) ==
  /\ ~ParseThrows(P, file, dialects[d])
  /\ ~ScanTables(v, file, dialects[d], file.tables, 1,
        [resources |-> <<>>, thrown |-> FALSE]).thrown

\* the dialects tried on the file, in the order of the attempts
AttemptsOf(att, path) ==
  LET mine == SelectSeq(att, LAMBDA a : a[1] = path)
  IN  [k \in 1..Len(mine) |-> mine[k][2]]

\* what the scanner returns for a tree made of this file alone
ResAlone(v, P, file) == extractResourcesLoop(v, P, <<file>>, <<>>, <<>>).resources

\* C2: all descriptors of one SQL file carry the same dialect tag, and the
\* file has no more descriptors of a name than it has tables of that name.
C2_OneDialectPerFile ==
  ResDone =>
    \A f \in 1..Len(sqlFiles) :
      LET rs == ResOfFile(outR.value, pathRelative(Cwd, sqlFiles[f].path))
      IN  /\ \A a, b \in 1..Len(rs) : rs[a].dialect = rs[b].dialect
          /\ \A a \in 1..Len(rs) :
               Cardinality({b \in 1..Len(rs) : rs[b].name = rs[a].name})
                 <= Cardinality({t \in 1..Len(sqlFiles[f].tables) :
                                   sqlFiles[f].tables[t].name = rs[a].name})

\* C3: the attempts on one SQL file are mysql, postgresql, sqlite, mssql in
\* that order, each failed attempt followed by the next dialect, none after
\* the first attempt that completes; the file's descriptors are tagged with
\* that first completing dialect.
C3_FirstSuccessWins ==
  ResDone =>
    \A f \in 1..Len(sqlFiles) :
      Attempted(variant, sqlFiles[f]) =>
        LET as == AttemptsOf(attempts, sqlFiles[f].path)
            k  == Len(as)
            rs == ResOfFile(outR.value, pathRelative(Cwd, sqlFiles[f].path))
        IN  /\ k >= 1 /\ k <= Len(dialects)
            /\ as = SubSeq(dialects, 1, k)
            /\ \A j \in 1..(k - 1) :
                 ~AttemptCompletes(variant, ParserAtScan, sqlFiles[f], j)
            /\ k < Len(dialects) =>
                 AttemptCompletes(variant, ParserAtScan, sqlFiles[f], k)
            /\ \A a \in 1..Len(rs) :
                 /\ AttemptCompletes(variant, ParserAtScan, sqlFiles[f], k)
                 /\ rs[a].dialect = dialects[k]

\* C4: a SQL file on which no dialect's attempt completes gets exactly one
\* warning and no descriptor, and every other file has the descriptors it has
\* when scanned alone.
C4_NoDialectNoDescriptor ==
  ResDone =>
    \A f \in 1..Len(sqlFiles) :
      (/\ Attempted(variant, sqlFiles[f])
       /\ \A d \in 1..Len(dialects) :
            ~AttemptCompletes(variant, ParserAtScan, sqlFiles[f], d))
      => /\ CountWarnings(console, sqlFiles[f].path) = 1
         /\ ResOfFile(outR.value, pathRelative(Cwd, sqlFiles[f].path)) = <<>>
         /\ \A g \in 1..Len(sqlFiles) :
              g # f =>
                ResOfFile(outR.value, pathRelative(Cwd, sqlFiles[g].path))
                  = ResAlone(variant, ParserAtScan, sqlFiles[g])

\* --------------------------------------------------- orchestrator claims
\* a scanner fails as a whole: its promise rejects
ToolsFails == ProjectThrows(variant, env) \/ env.globTs = "fails"
ResFails == env.globSql = "fails"

\* the parser class initializeParser leaves behind
ParserLoaded ==
  IF variant = "cli" /\ env.parserLoad = "noexport" THEN "undefined" ELSE "class"

\* the list each scanner gives when it runs with the other one not started
ToolsSequential ==
  IF ToolsFails THEN <<>> ELSE extractToolsLoop(variant, tsFiles, <<>>).tools

ResSequential ==
  IF ResFails THEN <<>>
  ELSE extractResourcesLoop(variant, ParserLoaded, sqlFiles, <<>>, <<>>).resources

\* C6: when one scanner's promise rejects, generateMCPManifest still
\* fulfils, with an empty list for that scanner and the complete list of the
\* other one.
C6_FailedScannerEmptyList ==
  (pcM = "done" /\ (ToolsFails \/ ResFails)) =>
    /\ manifest.status = "fulfilled"
    /\ manifest.tools = ToolsSequential
    /\ manifest.resources = ResSequential

\* C7: no failure inside the extraction core, the loading of the SQL parser
\* included, ends the process.
C7_NeverExits == ~exited

\* C8: whatever the interleaving of the two scanners' steps, the tools and
\* the resources of a fulfilled manifest are the lists the scanners give when
\* run one after the other.
C8_ConcurrentAsSequential ==
  (pcM = "done" /\ manifest.status = "fulfilled") =>
    /\ manifest.tools = ToolsSequential
    /\ manifest.resources = ResSequential

\* the schema scanner settled before the source scanner, both lists non-empty
C8_Witness ==
  /\ pcM = "done" /\ manifest.status = "fulfilled"
  /\ settled = <<"resources", "tools">>
  /\ manifest.tools # <<>> /\ manifest.resources # <<>>

\* ---------------------------------------------------- export check claim
\* the candidate's export check answers true: the isExported query of a
\* declaration or a binding, the export keyword among the modifiers of a
\* method (a candidate only as a public or non-private method of an
\* exported class)
PassesExportCheck(sym) ==
  /\ sym.throws # "isExported"
  /\ \/ sym.kind \in {"function", "variable"} /\ sym.exported
     \/ /\ sym.kind = "method" /\ sym.exported /\ IsPublicMethod(sym)
        /\ "export" \in sym.mods

\* C11: every descriptor extractTools returns has, in its file, a candidate
\* of its name whose export check answered true; a name whose symbols all
\* fail the check has no descriptor.
C11_OnlyExported ==
  ToolsDone =>
    \A i \in 1..Len(outT.value) :
      \E f \in 1..Len(tsFiles) :
        /\ pathRelative(Cwd, tsFiles[f].path) = outT.value[i].file
        /\ \E k \in 1..Len(tsFiles[f].syms) :
             /\ getName(tsFiles[f].syms[k]) = outT.value[i].name
             /\ PassesExportCheck(tsFiles[f].syms[k])

\* a file with an unexported declaration Go and an exported binding run was
\* scanned: run has its descriptor, Go has none
C11_Witness ==
  /\ ToolsDone
  /\ Len(tsFiles) = 1
  /\ tsFiles[1].syms = <<Sym("function", NGo, FALSE, {}, "none"),
                         Sym("variable", Nrun, TRUE, {}, "none")>>
  /\ Len(outT.value) = 1
  /\ outT.value[1].name = Nrun

\* ------------------------------------------- calls of a function on its own
scanVars == <<variant, env, tsFiles, sqlFiles, pcM, pcT, pcR, outT, outR,
              processedFunctions, Parser, console, attempts, settled,
              manifest, exited>>

\* no scanner runs; the function named fn is called once with one of Calls
InitCall(Calls) ==
  /\ variant \in {"cli", "lib"}
  /\ env = EnvOk
  /\ tsFiles = <<>> /\ sqlFiles = <<>>
  /\ pcM = "idle" /\ pcT = "idle" /\ pcR = "idle"
  /\ outT = Pending /\ outR = Pending
  /\ processedFunctions = {}
  /\ Parser = "unset"
  /\ console = <<>>
  /\ attempts = <<>>
  /\ settled = <<>>
  /\ manifest = [status |-> "pending", tools |-> <<>>, resources |-> <<>>]
  /\ exited = FALSE
  /\ \E c \in Calls : call = <<c>>
  /\ ret = <<>>

Pending1(fn) == Len(call) = Len(ret) + 1 /\ call[Len(call)].fn = fn

\* guessDescription returns
DescribeReturn ==
  /\ Pending1("guessDescription")
  /\ ret' = Append(ret, guessDescription(call[Len(call)].name, call[Len(call)].params))
  /\ UNCHANGED <<call, scanVars>>

\* categorizeFunction returns
CategorizeReturn ==
  /\ Pending1("categorizeFunction")
  /\ ret' = Append(ret, categorizeFunction(call[Len(call)].name, call[Len(call)].filePath))
  /\ UNCHANGED <<call, scanVars>>

\* names to classify: every prefix of the rules and two others, as written
\* and capitalised, then an entity, then an ending
ToUpperChar(c) ==
  IF \E i \in 1..26 : LowerCase[i] = c
  THEN UpperCase[CHOOSE i \in 1..26 : LowerCase[i] = c] ELSE c

Capitalize(s) == IF s = <<>> THEN s ELSE <<ToUpperChar(s[1])>> \o Tail(s)

Range(f) == {f[i] : i \in DOMAIN f}

RulePrefixes ==
  Range(FetchPrefixes) \cup Range(CreatePrefixes) \cup Range(UpdatePrefixes)
    \cup Range(DeletePrefixes) \cup Range(ListPrefixes)
    \cup Range(SearchPrefixes) \cup Range(ValidatePrefixes)
    \cup Range(AuthPrefixes) \cup {<<>>, Nrun}

NUser == <<"U","s","e","r">>
NById == <<"B","y","I","d">>

ClassifiedNames ==
  {p \o e \o g : p \in RulePrefixes \cup {Capitalize(q) : q \in RulePrefixes},
                 e \in {<<>>, NUser, NUser \o <<"s">>},
                 g \in {<<>>, NById}}

ParamNames == {<<"i","d">>, <<"u","s","e","r","I","d">>, <<"n","a","m","e">>}

DescribeMaxParams == 1

\* Object.keys of a parameters object: distinct names
ParamLists(n) ==
  {ps \in SeqsUpTo(ParamNames, n) :
     \A i, j \in 1..Len(ps) : i # j => ps[i] # ps[j]}

DescribeCalls ==
  {[fn |-> "guessDescription", name |-> n, params |-> ps] :
     n \in ClassifiedNames, ps \in ParamLists(DescribeMaxParams)}

InitDescribe == InitCall(DescribeCalls)

SpecDescribe == InitDescribe /\ [][DescribeReturn]_vars

CategorizedPaths ==
  {
    <<"a",".","t","s">>,
    <<"s","r","c","/","s","e","r","v","i","c","e","s","/","u","s","e","r","S","e","r","v","i","c","e",".","t","s">>,
    <<"s","r","c","/","a","p","i","/","u","s","e","r","s",".","t","s">>,
    <<"a","p","i","/","u","s","e","r","s",".","t","s">>,
    <<"s","e","r","v","i","c","e","s","/","u","s","e","r","S","e","r","v","i","c","e",".","t","s">>,
    <<"s","r","c","/","r","o","u","t","e","s","/","u","s","e","r","s",".","t","s">>,
    <<"s","r","c","/","u","t","i","l","s","/","a","p","i","/","x",".","t","s">>,
    <<"s","r","c","/","m","o","d","e","l","s","/","s","e","r","v","i","c","e","s","/","x",".","t","s">>,
    <<"s","r","c","/","h","e","l","p","e","r","s","/","x",".","t","s">>,
    <<"s","r","c","/","c","o","n","t","r","o","l","l","e","r","s","/","x",".","t","s">>,
    <<"s","r","c","/","m","i","d","d","l","e","w","a","r","e","/","x",".","t","s">>,
    <<"s","r","c","/","m","o","d","e","l","s","/","x",".","t","s">>,
    <<"s","r","c","/","m","i","d","d","l","e","w","a","r","e","/","u","t","i","l","s","/","x",".","t","s">>,
    <<"s","r","c","/","s","e","r","v","i","c","e","s",".","t","s">> }

CategorizeCalls ==
  {[fn |-> "categorizeFunction", name |-> n, filePath |-> p] :
     n \in ClassifiedNames, p \in CategorizedPaths}

InitCategorize == InitCall(CategorizeCalls)

SpecCategorize == InitCategorize /\ [][CategorizeReturn]_vars

\* --------------------------------------------------- name classifier claims
Returned(fn) == Len(call) = 1 /\ Len(ret) = 1 /\ call[1].fn = fn

\* the ways to read the name as prefix, entity, ending: the entities
EntitiesOf(name, prefixes, ending) ==
  {SubSeq(name, k + 1, Len(name) - Len(ending)) :
     k \in {j \in 1..(Len(name) - Len(ending)) :
              /\ toLowerCase(SubSeq(name, 1, j)) \in {toLowerCase(p) : p \in Range(prefixes)}
              /\ SubSeq(name, Len(name) - Len(ending) + 1, Len(name)) = ending}}

\* C12: for a name made of a fetch-group prefix, an entity and the ending
\* ById, called with an id-like parameter, guessDescription returns a
\* sentence that starts with "Fetch a specific <entity> by ID", the entity
\* in lower case.
C12_FetchById ==
  (Returned("guessDescription") /\ hasId(call[1].params)) =>
    \A e \in EntitiesOf(call[1].name, FetchPrefixes, NById) :
      e # <<>> =>
        startsWith(ret[1], TxtFetchSpecific \o toLowerCase(e) \o TxtByID)

\* C13: for every name that begins, letter case ignored, with list or
\* getAll, guessDescription returns "List all {suffix} records", the suffix
\* being the rest of the name in lower case.
C13_ListAll ==
  Returned("guessDescription") =>
    \A k \in 1..Len(ListPrefixes) :
      startsWith(toLowerCase(call[1].name), toLowerCase(ListPrefixes[k])) =>
        ret[1] = TxtListAll
                   \o toLowerCase(SubSeq(call[1].name, Len(ListPrefixes[k]) + 1,
                                         Len(call[1].name)))
                   \o TxtRecords

NgetUser == <<"g","e","t","U","s","e","r">>

IndexFrom(s, c, i) ==
  LET js == {j \in i..Len(s) : s[j] = c}
  IN  IF js = {} THEN 0 ELSE CHOOSE j \in js : \A k \in js : j <= k

\* the greatest j with s[j] = c, or 0
LastIndexOf(s, c) ==
  LET js == {j \in 1..Len(s) : s[j] = c}
  IN  IF js = {} THEN 0 ELSE CHOOSE j \in js : \A k \in js : j >= k

endsWith(s, p) ==
  Len(p) <= Len(s) /\ SubSeq(s, Len(s) - Len(p) + 1, Len(s)) = p

At(s, i, p) == i + Len(p) - 1 <= Len(s) /\ SubSeq(s, i, i + Len(p) - 1) = p

TxtImport == <<"i","m","p","o","r","t","(">>

\* /import\([^)]+\)\./ matched at position i: the position of its last
\* character, or 0
ImportEnd(s, i) ==
  IF ~At(s, i, TxtImport) THEN 0
  ELSE LET j == IndexFrom(s, ")", i + Len(TxtImport))
       IN  IF j > i + Len(TxtImport) /\ At(s, j + 1, <<".">>) THEN j + 1 ELSE 0

\* typeText.replace(/import\([^)]+\)\./g, '')
RECURSIVE StripImports(_,_)
StripImports(s, i) ==
  IF i > Len(s) THEN <<>>
  ELSE IF ImportEnd(s, i) # 0 THEN StripImports(s, ImportEnd(s, i) + 1)
  ELSE <<s[i]>> \o StripImports(s, i + 1)

\* String.prototype.trim over the white space of the type texts
trim(s) ==
  LET ks == {k \in 1..Len(s) : s[k] # " "}
  IN  IF ks = {} THEN <<>>
      ELSE SubSeq(s, CHOOSE a \in ks : \A k \in ks : a <= k,
                     CHOOSE b \in ks : \A k \in ks : b >= k)

\* \s* from position i: the first position that holds no white space
RECURSIVE SkipSpaces(_,_)
SkipSpaces(s, i) ==
  IF i <= Len(s) /\ s[i] = " " THEN SkipSpaces(s, i + 1) ELSE i

\* "([^"]+)" matched at position i: the position after it, or 0
LiteralEnd(s, i) ==
  IF ~At(s, i, <<"\"">>) THEN 0
  ELSE LET j == IndexFrom(s, "\"", i + 1)
       IN  IF j > i + 1 THEN j + 1 ELSE 0

\* (\s*\|\s*"([^"]+)")*$ matched from position i
RECURSIVE UnionTail(_,_)
UnionTail(s, i) ==
  IF i = Len(s) + 1 THEN TRUE
  ELSE LET k == SkipSpaces(s, i)
       IN  /\ At(s, k, <<"|">>)
           /\ LiteralEnd(s, SkipSpaces(s, k + 1)) # 0
           /\ UnionTail(s, LiteralEnd(s, SkipSpaces(s, k + 1)))

\* cleanType.match(/^"([^"]+)"(\s*\|\s*"([^"]+)")*$/)
enumMatch(s) == LiteralEnd(s, 1) # 0 /\ UnionTail(s, LiteralEnd(s, 1))

\* cleanType.match(/"([^"]+)"/g).map(s => s.slice(1, -1)), from position i
RECURSIVE enumValues(_,_)
enumValues(s, i) ==
  LET q == IndexFrom(s, "\"", i)
  IN  IF q = 0 THEN <<>>
      ELSE IF LiteralEnd(s, q) = 0 THEN enumValues(s, q + 1)
      ELSE <<SubSeq(s, q + 1, LiteralEnd(s, q) - 2)>>
             \o enumValues(s, LiteralEnd(s, q))

\* values.join(sep)
RECURSIVE join(_,_)
join(values, sep) ==
  IF values = <<>> THEN <<>>
  ELSE IF Len(values) = 1 THEN values[1]
  ELSE values[1] \o sep \o join(Tail(values), sep)

TxtBrackets == <<"[","]">>
TxtArrayLt == <<"A","r","r","a","y","<">>
TxtPromiseLt == <<"P","r","o","m","i","s","e","<">>
TxtAny == <<"a","n","y">>
TxtArrayOf == <<"A","r","r","a","y"," ","o","f"," ">>
TxtPromiseTo == <<"P","r","o","m","i","s","e"," ","r","e","s","o","l","v","i","n","g"," ","t","o"," ">>
TxtOneOf == <<"O","n","e"," ","o","f",":"," ">>
TxtComplex == <<"C","o","m","p","l","e","x"," ","o","b","j","e","c","t"," ","t","y","p","e">>
TxtArray == <<"a","r","r","a","y">>
TxtPromise == <<"p","r","o","m","i","s","e">>
TxtObject == <<"o","b","j","e","c","t">>
TxtString == <<"s","t","r","i","n","g">>

\* cleanType.replace(/\[\]|Array<|>/g, ''), from position i
RECURSIVE StripArray(_,_)
StripArray(s, i) ==
  IF i > Len(s) THEN <<>>
  ELSE IF At(s, i, TxtBrackets) THEN StripArray(s, i + 2)
  ELSE IF At(s, i, TxtArrayLt) THEN StripArray(s, i + Len(TxtArrayLt))
  ELSE IF s[i] = ">" THEN StripArray(s, i + 1)
  ELSE <<s[i]>> \o StripArray(s, i + 1)

\* cleanType.match(/Promise<(.+)>/)?.[1] || 'any' for a text that starts
\* with Promise<: the text up to the last > when it is not empty
innerType(s) ==
  IF LastIndexOf(s, ">") > Len(TxtPromiseLt) + 1
  THEN SubSeq(s, Len(TxtPromiseLt) + 1, LastIndexOf(s, ">") - 1)
  ELSE TxtAny

typeMap ==
  { <<<<"s","t","r","i","n","g">>, <<"s","t","r","i","n","g">>>>,
    <<<<"n","u","m","b","e","r">>, <<"n","u","m","b","e","r">>>>,
    <<<<"b","o","o","l","e","a","n">>, <<"b","o","o","l","e","a","n">>>>,
    <<<<"D","a","t","e">>, <<"s","t","r","i","n","g">>>>,
    <<<<"a","n","y">>, <<"a","n","y">>>>,
    <<<<"u","n","k","n","o","w","n">>, <<"a","n","y">>>>,
    <<<<"o","b","j","e","c","t">>, <<"o","b","j","e","c","t">>>>,
    <<<<"v","o","i","d">>, <<"n","u","l","l">>>>,
    <<<<"u","n","d","e","f","i","n","e","d">>, <<"n","u","l","l">>>>,
    <<<<"n","u","l","l">>, <<"n","u","l","l">>>> }

\* typeMap[cleanType] || cleanType
Mapped(s) == IF \E e \in typeMap : e[1] = s
             THEN (CHOOSE e \in typeMap : e[1] = s)[2] ELSE s

\* an absent field is <<>>, a field with value v is <<v>>
None == <<>>
Some(v) == <<v>>

TypeInfo(type, description, enum) ==
  [status |-> "returned", type |-> type, description |-> description,
   enum |-> enum]

\* the call ended with a TypeError
Thrown == [status |-> "thrown", type |-> <<>>, description |-> None, enum |-> None]

\* a mutation of DescriptionOf: the text is always given as description
DescriptionAlways(clean, mapped) == Some(clean)

\* cleanType !== (typeMap[cleanType] || cleanType) ? cleanType : undefined
DescriptionOf(clean, mapped) == IF clean # mapped THEN Some(clean) ELSE None

\* the body of parseTypeScriptType from cleanType on
NormalizeClean(c) ==
  IF enumMatch(c)
  THEN TypeInfo(TxtString, Some(TxtOneOf \o join(enumValues(c, 1), <<",", " ">>)),
                Some(enumValues(c, 1)))
  ELSE IF includes(c, TxtBrackets) \/ startsWith(c, TxtArrayLt)
  THEN TypeInfo(TxtArray, Some(TxtArrayOf \o StripArray(c, 1)), None)
  ELSE IF startsWith(c, TxtPromiseLt)
  THEN TypeInfo(TxtPromise, Some(TxtPromiseTo \o innerType(c)), None)
  ELSE IF includes(c, <<"{">>) /\ includes(c, <<"}">>)
  THEN TypeInfo(TxtObject, Some(TxtComplex), None)
  ELSE TypeInfo(Mapped(c), DescriptionOf(c, Mapped(c)), None)

cleanType(text) == trim(StripImports(text, 1))

\* arg.given is FALSE when the caller passes undefined.  The cli build
\* returns at once on a falsy text; the lib build has no such test and calls
\* replace on whatever it is given
parseTypeScriptType(v, arg) ==
  IF v = "cli" /\ (~arg.given \/ arg.text = <<>>)
  THEN TypeInfo(TxtAny, None, None)
  ELSE IF ~arg.given THEN Thrown
  ELSE NormalizeClean(cleanType(arg.text))

\* parseTypeScriptType returns
NormalizeReturn ==
  /\ Pending1("parseTypeScriptType")
  /\ ret' = Append(ret, parseTypeScriptType(variant, call[Len(call)]))
  /\ UNCHANGED <<call, scanVars>>

NormalizeMaxCalls == 3

\* the caller calls again with the text of its first call
NormalizeAgain ==
  /\ Len(call) = Len(ret) /\ Len(call) = 1
  /\ call[1].fn = "parseTypeScriptType"
  /\ call' = Append(call, call[1])
  /\ UNCHANGED <<ret, scanVars>>

\* the caller normalizes the kind it was given last
NormalizeKind ==
  /\ Len(call) = Len(ret) /\ Len(call) >= 1 /\ Len(call) < NormalizeMaxCalls
  /\ call[1].fn = "parseTypeScriptType"
  /\ ret[Len(ret)].status = "returned"
  /\ call' = Append(call, [fn |-> "parseTypeScriptType", given |-> TRUE,
                           text |-> ret[Len(ret)].type])
  /\ UNCHANGED <<ret, scanVars>>

\* type texts as the type checker prints them: names, string literals and
\* the empty text, wrapped up to TypeMaxDepth times
TypeAtoms ==
  {
    <<"s","t","r","i","n","g">>, <<"n","u","m","b","e","r">>,
    <<"b","o","o","l","e","a","n">>, <<"D","a","t","e">>,
    <<"v","o","i","d">>, <<"n","u","l","l">>, <<"a","n","y">>,
    <<"U","s","e","r">>, <<"\"","a","\"">>, <<"\"","b","\"">>,
    <<"\"","\"">>, <<"\"","a","[","]","\"">>, <<>> }

Wrap(t) ==
  { t \o TxtBrackets,
    TxtArrayLt \o t \o <<">">>,
    TxtPromiseLt \o t \o <<">">>,
    <<"{"," ","x",":"," ">> \o t \o <<" ","}">>,
    TxtImport \o <<"\"","m","\"",")",".">> \o t,
    t \o <<" ","|"," ","\"","b","\"">>,
    <<" ">> \o t \o <<" ">> }

TypeMaxDepth == 2

RECURSIVE TypeTexts(_)
TypeTexts(d) ==
  IF d = 0 THEN TypeAtoms
  ELSE TypeTexts(d - 1) \cup UNION {Wrap(t) : t \in TypeTexts(d - 1)}

NormalizeCalls ==
  {[fn |-> "parseTypeScriptType", given |-> TRUE, text |-> t] :
     t \in TypeTexts(TypeMaxDepth)}
    \cup {[fn |-> "parseTypeScriptType", given |-> FALSE, text |-> <<>>]}

InitNormalize == InitCall(NormalizeCalls)

NextNormalize == NormalizeReturn \/ NormalizeAgain \/ NormalizeKind

SpecNormalize == InitNormalize /\ [][NextNormalize]_vars

\* --------------------------------------------------- type normalizer claims
\* the first call was made with a text and has returned
NormalizedText ==
  /\ Len(ret) >= 1
  /\ call[1].fn = "parseTypeScriptType" /\ call[1].given
  /\ ret[1].status = "returned"

\* a double-quoted string literal at position i: the position after it, or 0
QuotedEnd(s, i) ==
  IF At(s, i, <<"\"">>) /\ IndexFrom(s, "\"", i + 1) # 0
  THEN IndexFrom(s, "\"", i + 1) + 1 ELSE 0

\* the rest of a union of string literals, from position i
RECURSIVE QuotedTail(_,_)
QuotedTail(s, i) ==
  IF i = Len(s) + 1 THEN TRUE
  ELSE LET k == SkipSpaces(s, SkipSpaces(s, i) + 1)
       IN  /\ At(s, SkipSpaces(s, i), <<"|">>)
           /\ QuotedEnd(s, k) # 0
           /\ QuotedTail(s, QuotedEnd(s, k))

\* the text is one or more double-quoted string literals joined by |
QuotedUnion(s) == QuotedEnd(s, 1) # 0 /\ QuotedTail(s, QuotedEnd(s, 1))

\* the values of the literals of such a union, in source order
RECURSIVE QuotedValues(_,_)
QuotedValues(s, i) ==
  IF IndexFrom(s, "\"", i) = 0 THEN <<>>
  ELSE LET q == IndexFrom(s, "\"", i)
       IN  <<SubSeq(s, q + 1, QuotedEnd(s, q) - 2)>>
             \o QuotedValues(s, QuotedEnd(s, q))

\* the text ends in [] or is an Array<...> wrapper, and is no literal union
ArrayForm(c) ==
  /\ ~QuotedUnion(c)
  /\ endsWith(c, TxtBrackets) \/ (startsWith(c, TxtArrayLt) /\ endsWith(c, <<">">>))

ArrayElement(c) ==
  IF endsWith(c, TxtBrackets) THEN SubSeq(c, 1, Len(c) - 2)
  ELSE SubSeq(c, Len(TxtArrayLt) + 1, Len(c) - 1)

\* C15: parseTypeScriptType returns kind array if and only if the cleaned
\* text is no string-literal union and ends in [] or is an Array<...>
\* wrapper, and the description is then "Array of " with the element type.
C15_ArrayKind ==
  NormalizedText =>
    LET c == cleanType(call[1].text)
    IN  /\ (ret[1].type = TxtArray) <=> ArrayForm(c)
        /\ ArrayForm(c) => ret[1].description = Some(TxtArrayOf \o ArrayElement(c))

PromiseForm(c) == startsWith(c, TxtPromiseLt) /\ endsWith(c, <<">">>)

PromiseInner(c) ==
  IF Len(c) = Len(TxtPromiseLt) + 1 THEN TxtAny
  ELSE SubSeq(c, Len(TxtPromiseLt) + 1, Len(c) - 1)

\* C16: for every text of the form Promise<T>, parseTypeScriptType returns
\* kind promise with description "Promise resolving to T", T being any when
\* there is no inner text.
C16_PromiseKind ==
  NormalizedText =>
    LET c == cleanType(call[1].text)
    IN  PromiseForm(c) =>
          /\ ret[1].type = TxtPromise
          /\ ret[1].description = Some(TxtPromiseTo \o PromiseInner(c))

\* C17: for every text that is a union of double-quoted string literals,
\* parseTypeScriptType returns kind string, the literal values in source
\* order as enum and "One of: " with the values joined by ", " as
\* description, whatever else the literals contain.
C17_LiteralUnion ==
  NormalizedText =>
    LET c == cleanType(call[1].text)
    IN  QuotedUnion(c) =>
          ret[1] = TypeInfo(TxtString,
                            Some(TxtOneOf \o join(QuotedValues(c, 1), <<",", " ">>)),
                            Some(QuotedValues(c, 1)))

\* C18: for an empty or missing text parseTypeScriptType returns kind any
\* with no description, in both builds.
C18_EmptyIsAny ==
  (/\ Len(ret) >= 1 /\ call[1].fn = "parseTypeScriptType"
   /\ (~call[1].given \/ call[1].text = <<>>))
  => ret[1] = TypeInfo(TxtAny, None, None)

PrimitiveKinds ==
  {
    <<"s","t","r","i","n","g">>, <<"n","u","m","b","e","r">>,
    <<"b","o","o","l","e","a","n">>, <<"o","b","j","e","c","t">>,
    <<"a","r","r","a","y">>, <<"n","u","l","l">>,
    <<"p","r","o","m","i","s","e">>, <<"a","n","y">> }

\* C19: two calls with the same argument return equal results, and a call
\* with a returned kind that is one of string, number, boolean, object,
\* array, null, promise, any returns that kind with no description.
C19_Idempotent ==
  (Len(call) >= 1 /\ call[1].fn = "parseTypeScriptType") =>
    \A i, j \in 1..Len(ret) :
      /\ call[i] = call[j] => ret[i] = ret[j]
      /\ (/\ ret[i].status = "returned" /\ ret[i].type \in PrimitiveKinds
          /\ call[j].given /\ call[j].text = ret[i].type)
         => /\ ret[j].status = "returned"
            /\ ret[j].type = ret[i].type
            /\ ret[j].description = None

\* Date was normalized twice to string with description Date, then string
\* was normalized to string with no description
C19_Witness ==
  /\ Len(ret) = 3
  /\ call[1].fn = "parseTypeScriptType"
  /\ call[1].text = <<"D","a","t","e">>
  /\ call[2] = call[1]
  /\ ret[2] = TypeInfo(TxtString, Some(<<"D","a","t","e">>), None)
  /\ call[3].text = TxtString
  /\ ret[3] = TypeInfo(TxtString, None, None)

\* ------------------------------------------------- documentation extraction
\* A symbol as the documentation step sees it:
\*   kind    "function" | "variable" | "method"
\*   params  the names of its parameters
\*   docs    the JSDoc blocks attached to its statement, each with its
\*           comment text (None when it has none) and its tags in order
TxtUndefined == <<"u","n","d","e","f","i","n","e","d">>

\* 'getJsDocs' in fn ? fn.getJsDocs() : []: declarations and methods have
\* the method, variable declarations do not (the comment of a binding hangs
\* on its variable statement)
getJsDocs(sym) == IF sym.kind \in {"function", "method"} THEN sym.docs ELSE <<>>

\* the text one @example tag contributes
ExampleText(v, tag) ==
  IF tag.comment # None THEN tag.comment[1]
  ELSE IF v = "cli" THEN TxtUndefined ELSE <<>>

\* tags.filter(tag => tag.getTagName() === 'example').map(...)
RECURSIVE ExamplesOf(_,_)
ExamplesOf(v, tags) ==
  IF tags = <<>> THEN <<>>
  ELSE (IF tags[1].tagName = "example" THEN <<ExampleText(v, tags[1])>> ELSE <<>>)
         \o ExamplesOf(v, Tail(tags))

\* description and examples as they are pushed with the descriptor
extractDocs(v, sym) ==
  LET jsDocs == getJsDocs(sym)
      guess == guessDescription(sym.name, sym.params)
  IN  IF Len(jsDocs) = 0
      THEN [description |-> guess, examples |-> None]
      ELSE [description |->
              IF jsDocs[1].comment # None /\ jsDocs[1].comment[1] # <<>>
              THEN jsDocs[1].comment[1] ELSE guess,
            examples |->
              IF ExamplesOf(v, jsDocs[1].tags) = <<>> THEN None
              ELSE Some(ExamplesOf(v, jsDocs[1].tags))]

\* the documentation step of extractTools returns
DocumentReturn ==
  /\ Pending1("extractDocs")
  /\ ret' = Append(ret, extractDocs(variant, call[Len(call)].sym))
  /\ UNCHANGED <<call, scanVars>>

DocMaxTags == 2

DocTexts == { <<"A","d","d","s",".">>, <<>> }

DocTags ==
  {[tagName |-> "example", comment |-> c] :
     c \in {None, Some(<<"f","(","1",")">>), Some(<<"f","(","2",")">>)}}
    \cup {[tagName |-> "param", comment |-> Some(<<"x">>)]}

DocBlocks ==
  [comment : {None} \cup {Some(t) : t \in DocTexts},
   tags : SeqsUpTo(DocTags, DocMaxTags)]

DocumentCalls ==
  {[fn |-> "extractDocs",
    sym |-> [kind |-> k, name |-> n, params |-> ps, docs |-> ds]] :
     k \in {"function", "variable", "method"},
     n \in {NgetUser, Nrun},
     ps \in {<<>>, << <<"i","d">> >>},
     ds \in {<<>>} \cup {<<b>> : b \in DocBlocks}}

InitDocs == InitCall(DocumentCalls)

SpecDocs == InitDocs /\ [][DocumentReturn]_vars

\* --------------------------------------------- documentation claim
\* the contents of the @example tags of a block, in order
ExampleContents(tags) ==
  LET ex == SelectSeq(tags, LAMBDA t : t.tagName = "example")
  IN  [i \in 1..Len(ex) |-> IF ex[i].comment = None THEN <<>> ELSE ex[i].comment[1]]

\* C20: a symbol with a documentation comment that has text gets that text
\* as description, and the contents of the comment's @example tags, in
\* order, as examples; a symbol with no documentation comment gets
\* guessDescription(name, parameters); the examples field is absent when
\* there are no examples.
C20_DocOverrides ==
  Returned("extractDocs") =>
    LET sym == call[1].sym
    IN  /\ ret[1].examples # Some(<<>>)
        /\ sym.docs = <<>> =>
             /\ ret[1].description = guessDescription(sym.name, sym.params)
             /\ ret[1].examples = None
        /\ sym.docs # <<>> =>
             /\ (sym.docs[1].comment # None /\ sym.docs[1].comment[1] # <<>>)
                  => ret[1].description = sym.docs[1].comment[1]
             /\ ret[1].examples =
                  IF ExampleContents(sym.docs[1].tags) = <<>> THEN None
                  ELSE Some(ExampleContents(sym.docs[1].tags))


\* ------------------------------------------------------- repeated runs
\* Several invocations of extractTools over the same tree, one after the
\* other or overlapping.  call[i] is the i-th invocation and its position,
\* ret the tools lists in the order in which the invocations returned.
\* processedFunctions holds the set of the invocation that ran last.
RunsMax == 2
RunsMaxFiles == 1
RunsMaxSyms == 2

\* extractTools() is called and runs up to the await of its file glob
RunsStart ==
  /\ Len(call) < RunsMax
  /\ call' = Append(call, [fn |-> "extractTools", pc |-> "glob"])
  /\ UNCHANGED <<ret, scanVars>>

\* the glob of invocation i settles and the invocation runs to its return
RunsGlob(i) ==
  /\ call[i].pc = "glob"
  /\ \E r \in {extractToolsLoop(variant, tsFiles, console)} :
       /\ ret' = Append(ret, [run |-> i, tools |-> r.tools])
       /\ processedFunctions' = r.processed
       /\ console' = r.console
  /\ call' = [call EXCEPT ![i].pc = "done"]
  /\ UNCHANGED <<variant, env, tsFiles, sqlFiles, pcM, pcT, pcR, outT, outR,
                 Parser, attempts, settled, manifest, exited>>

RunsReturn == \E i \in 1..Len(call) : RunsGlob(i)

RunsSyms ==
  {Sym("function", Nrun, e, {}, "none") : e \in BOOLEAN}
    \cup {Sym("function", NGo, TRUE, {}, "none"),
          Sym("variable", Nrun, TRUE, {}, "none"),
          Sym("function", Nrun, TRUE, {}, "extract")}

InitRuns ==
  /\ InitWith({"cli", "lib"}, {EnvOk})
  /\ TsFilesIn(RunsSyms, FileStates, RunsMaxFiles, RunsMaxSyms)
  /\ sqlFiles = <<>>

NextRuns == RunsStart \/ RunsReturn

SpecRuns == InitRuns /\ [][NextRuns]_vars

\* C21: the duplicate-suppression set belongs to one invocation of the
\* Source Scanner: runs over the same unchanged files, one after the other
\* or overlapping, return the same tools list, so a (file, name) pair that
\* one run emitted is emitted by the other too.
C21_RunsIndependent ==
  \A i, j \in 1..Len(ret) : ret[i].tools = ret[j].tools

\* two overlapping runs (the one called second returned first) have both
\* returned a descriptor
C21_Witness ==
  /\ Len(ret) = 2
  /\ ret[1].run = 2
  /\ ret[2].run = 1
  /\ ret[1].tools # <<>>


\* ------------------------------------------- schema scanner, further claims
\* the Schema Scanner alone, over single SQL files of every shape: any set of
\* accepting dialects, any table shapes
OneMaxSqlFiles == 1
OneMaxTables == 1

InitSqlFile ==
  /\ InitWith({"cli", "lib"}, {EnvOk})
  /\ tsFiles = <<>>
  /\ SqlFilesIn(ScanTableSet, SUBSET {dialects[d] : d \in 1..Len(dialects)},
                OneMaxSqlFiles, OneMaxTables, OneMaxSqlFiles * Len(dialects))

SpecSqlFile == InitSqlFile /\ [][NextSql]_vars

\* the file has text that some dialect's parser accepts, and no table
ParsesWithoutTables(file) ==
  /\ file.state = "ok"
  /\ file.raw = "text"
  /\ file.tables = <<>>
  /\ \E d \in 1..Len(dialects) : ~ParseThrows(ParserAtScan, file, dialects[d])

\* C22: a non-empty SQL file that parses without error under some dialect
\* but defines no tables yields no resource descriptor and no warning.
C22_NoTablesNoWarning ==
  ResDone =>
    \A f \in 1..Len(sqlFiles) :
      ParsesWithoutTables(sqlFiles[f]) =>
        /\ ResOfFile(outR.value, pathRelative(Cwd, sqlFiles[f].path)) = <<>>
        /\ CountWarnings(console, sqlFiles[f].path) = 0

\* the scanner has returned from a tree with such a file, which only the
\* last dialect accepts
C22_Witness ==
  /\ ResDone
  /\ Len(sqlFiles) = 1
  /\ ParsesWithoutTables(sqlFiles[1])
  /\ sqlFiles[1].okDialects = {"mssql"}
  /\ AttemptsOf(attempts, sqlFiles[1].path) = dialects


\* ------------------------------------------- source scanner, further claims
\* the candidate passes the name, filter and export tests
Eligible(fn, filePath) ==
  /\ fn.name # NoName
  /\ isValidToolFunction(fn.name, filePath)
  /\ IsExported(fn)

\* C23: a candidate is dropped as a duplicate only if an earlier candidate
\* with the same (file path, name) has produced a descriptor: a candidate
\* that passes the tests and whose own extraction does not fail has a
\* descriptor of its (file, name) in the output, also when an earlier
\* occurrence of the same name in the file failed and produced none.
C23_DroppedOnlyAfterDescriptor ==
  ToolsDone =>
    \A f \in 1..Len(tsFiles) :
      tsFiles[f].state = "ok" =>
        LET fns == allFunctions(tsFiles[f])
        IN  \A k \in 1..Len(fns) :
              ( /\ Eligible(fns[k], tsFiles[f].path)
                /\ fns[k].throws = "none"
                /\ \A j \in 1..(k - 1) :
                     fns[j].throws # "none" =>
                       fns[j].throws = "extract" /\ fns[j].name = fns[k].name )
              => CountTools(outT.value, pathRelative(Cwd, tsFiles[f].path),
                            fns[k].name) >= 1


\* C24: a candidate with no name is skipped: no descriptor of the Source
\* Scanner's output stands for an anonymous function, none has the
\* placeholder name [anonymous].
C24_NoAnonymousDescriptor ==
  ToolsDone =>
    \A i \in 1..Len(outT.value) : outT.value[i].name # Anonymous


\* ---------------------------------------------------- parameter extraction
\* A parameter as the extraction sees it:
\*   optional  it is written with a question token
\*   resolved  the checker could resolve its type
\*   throws    param.getType().getText() throws
\*   text      the type text otherwise; the checker prints a type it could
\*             not resolve as any
\* parameters is the object the descriptor carries, as its entries in
\* insertion order.

\* required: !isOptional
RequiredOf(param) == ~param.optional

\* 'getParameters' in fn ? fn.getParameters() : []: declarations and methods
\* have the method, variable declarations do not
getParameters(sym) == IF sym.kind \in {"function", "method"} THEN sym.params ELSE <<>>

\* param.getType()?.getText() || 'any' in the cli build, the text as it is
\* in the lib build
paramType(v, param) ==
  IF v = "cli" /\ param.text = <<>> THEN TxtAny ELSE param.text

ParameterEntry(v, param) ==
  LET typeInfo == parseTypeScriptType(v, [given |-> TRUE, text |-> paramType(v, param)])
  IN  [name |-> param.name, type |-> typeInfo.type,
       required |-> RequiredOf(param),
       description |-> typeInfo.description, enum |-> typeInfo.enum]

\* parameters[paramName] = entry: a new key goes last, a known key keeps its
\* place
SetKey(parameters, entry) ==
  IF \E k \in 1..Len(parameters) : parameters[k].name = entry.name
  THEN [k \in 1..Len(parameters) |->
          IF parameters[k].name = entry.name THEN entry ELSE parameters[k]]
  ELSE Append(parameters, entry)

\* the loop over paramList: the cli build drops a parameter whose step
\* throws and goes on, the lib build lets the exception leave the loop
RECURSIVE ScanParameters(_,_,_,_)
ScanParameters(v, paramList, i, parameters) ==
  IF i > Len(paramList) THEN [status |-> "returned", parameters |-> parameters]
  ELSE IF paramList[i].throws
  THEN IF v = "cli" THEN ScanParameters(v, paramList, i + 1, parameters)
       ELSE [status |-> "thrown", parameters |-> <<>>]
  ELSE ScanParameters(v, paramList, i + 1,
         SetKey(parameters, ParameterEntry(v, paramList[i])))

extractParameters(v, sym) == ScanParameters(v, getParameters(sym), 1, <<>>)

\* inputSchema of the manifest entry of a tool
inputSchema(parameters) ==
  LET required == SelectSeq(parameters, LAMBDA p : p.required)
  IN  [type |-> "object", properties |-> parameters,
       required |-> [k \in 1..Len(required) |-> required[k].name]]

\* the parameters of one symbol are extracted and, when a descriptor comes
\* of it, its manifest entry is built
ParametersReturn ==
  /\ Pending1("extractParameters")
  /\ \E r \in {extractParameters(variant, call[Len(call)].sym)} :
       ret' = Append(ret,
                IF r.status = "thrown"
                THEN [status |-> "thrown", parameters |-> <<>>,
                      inputSchema |-> inputSchema(<<>>)]
                ELSE [status |-> "returned", parameters |-> r.parameters,
                      inputSchema |-> inputSchema(r.parameters)])
  /\ UNCHANGED <<call, scanVars>>

ParamsMax == 2

ParamTypes ==
  {[resolved |-> TRUE, throws |-> FALSE, text |-> t] :
     t \in {TxtString, <<"U","s","e","r">>, <<"\"","a","\""," ","|"," ","\"","b","\"">>}}
    \cup {[resolved |-> FALSE, throws |-> FALSE, text |-> TxtAny],
          [resolved |-> FALSE, throws |-> TRUE, text |-> <<>>]}

ParamAt(i, optional, t) ==
  [name |-> <<LowerCase[i]>>, optional |-> optional, resolved |-> t.resolved,
   throws |-> t.throws, text |-> t.text]

\* up to n parameters, named a, b, ... in declaration order
DeclaredParams(n) ==
  UNION {{[i \in 1..k |-> ParamAt(i, o[i], t[i])] :
            o \in [1..k -> BOOLEAN], t \in [1..k -> ParamTypes]} : k \in 0..n}

ParameterCalls ==
  {[fn |-> "extractParameters",
    sym |-> [kind |-> k, name |-> Nrun, params |-> ps]] :
     k \in {"function", "variable", "method"}, ps \in DeclaredParams(ParamsMax)}

InitParameters == InitCall(ParameterCalls)

SpecParameters == InitParameters /\ [][ParametersReturn]_vars

\* ------------------------------------------------ parameter extraction claims
\* C25: when the type of a parameter cannot be resolved, the symbol's
\* descriptor is still emitted and records that parameter with type any and
\* no description.
C25_UnresolvedIsAny ==
  Returned("extractParameters") =>
    \A i \in 1..Len(call[1].sym.params) :
      ~call[1].sym.params[i].resolved =>
        /\ ret[1].status = "returned"
        /\ \E k \in 1..Len(ret[1].parameters) :
             /\ ret[1].parameters[k].name = call[1].sym.params[i].name
             /\ ret[1].parameters[k].type = TxtAny
             /\ ret[1].parameters[k].description = None


\* the position of the key in the properties object, 0 when it is no key
KeyIndex(properties, name) ==
  IF \E k \in 1..Len(properties) : properties[k].name = name
  THEN CHOOSE k \in 1..Len(properties) : properties[k].name = name
  ELSE 0

\* C29: inputSchema.required of a tool is exactly the list of the parameter
\* names whose schema has required = true, in declaration order; every
\* listed name is a key of inputSchema.properties; and required is true
\* exactly for the parameters declared without an optional marker.
C29_RequiredList ==
  (Returned("extractParameters") /\ ret[1].status = "returned") =>
    LET props == ret[1].inputSchema.properties
        required == ret[1].inputSchema.required
        declared == call[1].sym.params
    IN  /\ \A a \in 1..Len(required) : KeyIndex(props, required[a]) > 0
        /\ \A k \in 1..Len(props) :
             props[k].required <=> \E a \in 1..Len(required) : required[a] = props[k].name
        /\ \A a, b \in 1..Len(required) :
             a < b => KeyIndex(props, required[a]) < KeyIndex(props, required[b])
        /\ \A k \in 1..Len(props) :
             \E i \in 1..Len(declared) :
               /\ declared[i].name = props[k].name
               /\ props[k].required = ~declared[i].optional
        /\ \A k, l \in 1..Len(props) :
             k < l => KeyIndex(declared, props[k].name) < KeyIndex(declared, props[l].name)
        /\ \A i \in 1..Len(declared) :
             ~declared[i].optional =>
               \E a \in 1..Len(required) : required[a] = declared[i].name


\* ------------------------------------------------------ order of the tools
KindRank(kind) ==
  IF kind = "function" THEN 1 ELSE IF kind = "variable" THEN 2 ELSE 3

\* the place of the symbol at position s of the file in the discovery order:
\* by kind, then by position in the source
DiscoveryKey(syms, s) == KindRank(syms[s].kind) * (Len(syms) + 1) + s

\* the symbols of the file that pass the tests under the name
PassingAs(file, name) ==
  {s \in 1..Len(file.syms) :
     /\ file.syms[s].name = name
     /\ PassesExportCheck(file.syms[s])
     /\ isValidToolFunction(name, file.path)}

\* the place of the first of them
KeptKey(file, name) ==
  CHOOSE key \in {DiscoveryKey(file.syms, s) : s \in PassingAs(file, name)} :
    \A s \in PassingAs(file, name) : key <= DiscoveryKey(file.syms, s)

FileIndex(rel) ==
  CHOOSE f \in 1..Len(tsFiles) : pathRelative(Cwd, tsFiles[f].path) = rel

C27_BlankFileSkipped ==
  ResDone =>
    \A f \in 1..Len(sqlFiles) :
      (sqlFiles[f].state = "ok" /\ sqlFiles[f].raw = "blank") =>
        /\ AttemptsOf(attempts, sqlFiles[f].path) = <<>>
        /\ ResOfFile(outR.value, pathRelative(Cwd, sqlFiles[f].path)) = <<>>
        /\ CountWarnings(console, sqlFiles[f].path) = 0


\* ------------------------------------------------- directory markers claim
\* the directory name of a marker, without its slashes
MarkerDirectory(k) == SubSeq(PathMarkers[k].marker, 2, Len(PathMarkers[k].marker) - 1)

PathCategories == {PathMarkers[k].category : k \in 1..Len(PathMarkers)}

\* the directories of the path from the second on (each has a slash on both
\* sides in a relative path; the last segment is the file)
InnerDirectories(filePath) ==
  LET segs == SplitPath(filePath, 1, <<>>)
  IN  {segs[i] : i \in 2..(Len(segs) - 1)}

\* C28: categorizeFunction matches a directory marker only when the
\* directory name has a slash on both sides in the path it is given; for a
\* project-relative path that begins with the directory name (as
\* services/userService.ts) no path rule matches and the category comes from
\* the name rules or is general.
C28_MarkerNeedsBothSlashes ==
  Returned("categorizeFunction") =>
    /\ ret[1] \in PathCategories =>
         \E k \in 1..Len(PathMarkers) :
           /\ PathMarkers[k].category = ret[1]
           /\ MarkerDirectory(k) \in InnerDirectories(call[1].filePath)
    /\ (\A k \in 1..Len(PathMarkers) :
          ~(MarkerDirectory(k) \in InnerDirectories(call[1].filePath)))
       => /\ ret[1] = NameCategory(call[1].name)
          /\ ~(ret[1] \in PathCategories)

\* categorizeFunction("getUser", "services/userService.ts") returned
\* "data-access"
C28_Witness ==
  /\ Returned("categorizeFunction")
  /\ call[1].name = NgetUser
  /\ call[1].filePath = <<"s","e","r","v","i","c","e","s","/","u","s","e","r","S","e","r","v","i","c","e",".","t","s">>
  /\ ret[1] = "data-access"


\* ------------------------------------------------------ manifest assembly
\* whole runs of generateMCPManifest to its return, over trees whose tools
\* fall into more than one category
ManifestMaxFiles == 2
ManifestMaxSyms == 2
ManifestMaxSqlFiles == 1
ManifestMaxTables == 2

ManifestSyms ==
  {Sym("function", n, TRUE, {}, "none") : n \in {Nrun, NgetUser}}
    \cup {Sym("variable", Nrun, TRUE, {}, "none")}

InitManifest ==
  /\ InitWith({"cli", "lib"}, {EnvOk})
  /\ TsFilesIn(ManifestSyms, {"ok"}, ManifestMaxFiles, ManifestMaxSyms)
  /\ SqlFilesIn(RunTableSet, {{"mysql"}}, ManifestMaxSqlFiles, ManifestMaxTables,
                ManifestMaxSqlFiles)

NextManifest == Next \/ Assemble

SpecManifest == InitManifest /\ [][NextManifest]_vars

RECURSIVE SumOver(_,_)
SumOver(f, S) ==
  IF S = {} THEN 0
  ELSE LET x == CHOOSE y \in S : TRUE IN f[x] + SumOver(f, S \ {x})

\* C30: in every manifest generateMCPManifest returns, statistics.totalTools
\* is the length of tools and statistics.totalResources the length of
\* resources, the tools and the resources keep the scanners' order one to
\* one, and statistics.toolsByCategory has one entry for each category that
\* occurs among the tools, the counts summing to totalTools.
C30_StatisticsMatchLists ==
  (pcM = "returned" /\ manifest.status = "returned") =>
    LET st == manifest.statistics
    IN  /\ st.totalTools = Len(manifest.tools)
        /\ st.totalResources = Len(manifest.resources)
        /\ Len(manifest.tools) = Len(outT.value)
        /\ \A i \in 1..Len(outT.value) :
             /\ manifest.tools[i].name = outT.value[i].name
             /\ manifest.tools[i].file = outT.value[i].file
        /\ Len(manifest.resources) = Len(outR.value)
        /\ \A i \in 1..Len(outR.value) :
             /\ manifest.resources[i].name = outR.value[i].name
             /\ manifest.resources[i].file = outR.value[i].file
        /\ DOMAIN st.toolsByCategory =
             {manifest.tools[i].category : i \in 1..Len(manifest.tools)}
        /\ \A c \in DOMAIN st.toolsByCategory : st.toolsByCategory[c] >= 1
        /\ SumOver(st.toolsByCategory, DOMAIN st.toolsByCategory) = st.totalTools

\* a manifest was returned with two tools of one name in two files and a
\* resource
C30_Witness ==
  /\ pcM = "returned" /\ manifest.status = "returned"
  /\ manifest.statistics.totalTools = 2
  /\ manifest.statistics.totalResources = 1
  /\ manifest.tools[1].name = manifest.tools[2].name
  /\ manifest.tools[1].file # manifest.tools[2].file

====
